---- MODULE Spec2Model ----
(***************************************************************************)
(* MicroSmart: the Telegram bot's analysis conversation                    *)
(* (src/telegram_bot.py) and the API server's /analyze_batch endpoint      *)
(* (src/api_server.py), for one user in one chat.                          *)
(*                                                                         *)
(* The bot processes updates one at a time (python-telegram-bot's default, *)
(* blocking handlers): a handler runs to its end before the next update is *)
(* looked at.  handle_done awaits the HTTP call to the API server; while   *)
(* it waits the server runs analyze_batch, one loop iteration per step     *)
(* (each iteration starts with an awaited download).                       *)
(***************************************************************************)
EXTENDS Integers, Sequences, FiniteSets, TLC

\* ---------------------------------------------------------------- bounds
\* Longest reference list a session collects.
MaxBatch == 2
\* Most detections the classifier returns for one image.
MaxLabels == 2
\* Most images a finished loop has processed, and the largest WBC total it
\* has counted, when the rest of analyze_batch is looked at on its own.
MaxProcessed == 4
MaxWbcTotal == 24
\* How far around the threshold, in eighths, the blur scores of checked
\* uploads range.
BlurSpan == 40

\* ------------------------------------------------------------ input sets
FileIds == {"f1", "f2"}
\* Laplacian variances of decoded images.
BlurScores == {80, 120}
\* os.urandom(4).hex(): any value.
SessionIds == {"session_a"}
\* Class indices the classifier may emit; the last one is outside CLASS_NAMES.
ClassIndices == 0..3

\* ------------------------------------------------------------- constants
CLASS_NAMES == <<"RBC", "WBC", "Platelet">>
BLUR_THRESHOLD == 100
WBC_CONVERSION_FACTOR == 2000
RBC_CONVERSION_FACTOR == 15000
PLATELET_CONVERSION_FACTOR == 15000
UPLOADING_IMAGES == 0
Q_AND_A == 1
\* ConversationHandler.END; the library drops the conversation on it.
END == -1

ClassSet == {CLASS_NAMES[k] : k \in 1..Len(CLASS_NAMES)}

\* ------------------------------------------------------------- helpers
\* A dict without keys, dict[k] = v, dict.get(k, default), dict.pop(k, None).
EmptyDict == [k \in {} |-> 0]
Put(d, k, v) == [x \in (DOMAIN d) \cup {k} |-> IF x = k THEN v ELSE d[x]]
Get(d, k, default) == IF k \in DOMAIN d THEN d[k] ELSE default
Pop(d, k) == [x \in (DOMAIN d) \ {k} |-> d[x]]

RECURSIVE GCD(_, _)
GCD(a, b) == IF b = 0 THEN a ELSE GCD(b, a % b)

\* Python's true division of two non-negative numbers, d > 0, kept exact: the
\* quotient in lowest terms <<numerator, denominator>>.
Div(n, d) == LET g == GCD(n, d) IN <<n \div g, d \div g>>

\* x < y for exact quotients.
LessThan(x, y) == x[1] * y[2] < y[1] * x[2]

RECURSIVE Pow10(_)
Pow10(k) == IF k = 0 THEN 1 ELSE 10 * Pow10(k - 1)

RECURSIVE IsPowerOfTwo(_)
IsPowerOfTwo(d) == d = 1 \/ (d % 2 = 0 /\ IsPowerOfTwo(d \div 2))

\* round(x * 10^places) as the format specification rounds the float whose
\* value is x: to the nearest integer; a float that holds x exactly and lies
\* midway goes to the even neighbour; when the float only approximates x, a
\* midway x is shown on the side the float fell (up or down).
RoundScaled(x, places, exact, up) ==
    LET num == x[1] * Pow10(places)
        q == num \div x[2]
        twice == 2 * (num % x[2])
    IN IF twice < x[2] THEN q
       ELSE IF twice > x[2] THEN q + 1
       ELSE IF exact THEN (IF q % 2 = 0 THEN q ELSE q + 1)
       ELSE (IF up THEN q + 1 ELSE q)

\* (the rounded value written without its trailing zeros)
RECURSIVE Trimmed(_)
Trimmed(digits) ==
    IF digits # <<>> /\ digits[Len(digits)] = 0
    THEN Trimmed(SubSeq(digits, 1, Len(digits) - 1)) ELSE digits

FormatShortest(x, places, exact, up) ==
    LET h == RoundScaled(x, places, exact, up)
        scale == Pow10(places)
    IN [int |-> h \div scale,
        frac |-> Trimmed([k \in 1..places |-> (h \div Pow10(places - k)) % 10])]

\* f"{x:.<places>f}" for a non-negative float: the integer part and exactly
\* <places> digits after the point.
FormatFixed(x, places, exact, up) ==
    LET h == RoundScaled(x, places, exact, up)
        scale == Pow10(places)
    IN [int |-> h \div scale,
        frac |-> [k \in 1..places |-> (h \div Pow10(places - k)) % 10]]

\* All sequences over S of length at most n.
SeqsUpTo(S, n) == UNION {[1..k -> S] : k \in 0..n}

\* ======================================================== api_server.py
\* model = YOLO(...) succeeded, or model = None.
VARIABLE model_loaded
\* The frame of the running analyze_batch call, [pc |-> "idle"] when none runs.
VARIABLE api
\* The bot's POST to API_URL_BATCH: none, the request, waiting, the response.
VARIABLE http
\* What happened to each reference of the running call (observation only).
VARIABLE obs

ErrModelNotLoaded == [error |-> "Model is not loaded. Check server logs."]
\* (the empty list answered with the error of a batch whose images all failed)
ErrNoFileIdsAsAllFailed == [error |-> "All images failed to download or decode."]
ErrNoFileIds == [error |-> "No file_ids provided."]
ErrAllFailed == [error |-> "All images failed to download or decode."]

Response(code, body) == [kind |-> "response", status_code |-> code, json |-> body]
\* An exception leaving the endpoint: the framework answers 500.
InternalServerError == Response(500, EmptyDict)
NoHttp == [kind |-> "none"]

IdleFrame == [pc |-> "idle"]
NewFrame(file_ids) ==
    [pc |-> "loop", file_ids |-> file_ids, i |-> 0,
     total_counts |-> [name \in ClassSet |-> 0],
     total_blur_score |-> 0,
     best_image_blur_score |-> -1,
     images_processed |-> 0]

\* What one reference does in the loop: the download fails, the bytes do not
\* decode, the classifier raises, or the classifier returns class indices for
\* an image of some sharpness.
Outcomes ==
    {[kind |-> "download_failed"], [kind |-> "decode_failed"], [kind |-> "model_raises"]}
    \cup {[kind |-> "detected", cls |-> c, blur |-> b] :
            c \in SeqsUpTo(ClassIndices, MaxLabels), b \in BlurScores}

\* The outcomes drawn for the references a session of the bot submits.
SessionOutcomes ==
    {[kind |-> "download_failed"], [kind |-> "decode_failed"], [kind |-> "model_raises"],
     [kind |-> "detected", cls |-> <<>>, blur |-> 120],
     [kind |-> "detected", cls |-> <<1>>, blur |-> 120]}

\* The tally loop under try/except: an index outside CLASS_NAMES raises
\* IndexError, which ends the loop and keeps the counts made so far.
RECURSIVE Tally(_, _)
Tally(counts, cls) ==
    IF cls = <<>> THEN counts
    ELSE IF Head(cls) >= Len(CLASS_NAMES) THEN counts
    ELSE Tally([counts EXCEPT ![CLASS_NAMES[Head(cls) + 1]] = @ + 1], Tail(cls))

\* (the counts of an image replace the totals instead of adding to them)
LoopBodyLastImage(f, out) ==
    LET g == [f EXCEPT !.i = @ + 1] IN
    CASE out.kind = "download_failed" -> g
      [] out.kind = "decode_failed" -> g
      [] out.kind = "model_raises" ->
            [g EXCEPT !.images_processed = @ + 1, !.pc = "raised"]
      [] out.kind = "detected" ->
            [g EXCEPT !.images_processed = @ + 1,
                      !.total_counts = Tally([name \in ClassSet |-> 0], out.cls),
                      !.total_blur_score = @ + out.blur,
                      !.best_image_blur_score = IF out.blur > @ THEN out.blur ELSE @]

\* One iteration of "for file_id in file_ids" on frame f; pc "raised" when an
\* exception leaves the loop.
LoopBody(f, out) ==
    LET g == [f EXCEPT !.i = @ + 1] IN
    CASE out.kind = "download_failed" -> g
      [] out.kind = "decode_failed" -> g
      [] out.kind = "model_raises" ->
            [g EXCEPT !.images_processed = @ + 1, !.pc = "raised"]
      [] out.kind = "detected" ->
            [g EXCEPT !.images_processed = @ + 1,
                      !.total_counts = Tally(@, out.cls),
                      !.total_blur_score = @ + out.blur,
                      !.best_image_blur_score = IF out.blur > @ THEN out.blur ELSE @]

\* (the averages taken over the submitted references instead)
AvgCountsOverSubmitted(f) ==
    [name \in ClassSet |-> Div(f.total_counts[name], Len(f.file_ids))]

\* (the WBC average taken over the WBC and the RBC labels together)
AvgCountsWbcWithRbc(f) ==
    [name \in ClassSet |->
       Div(IF name = "WBC" THEN f.total_counts["WBC"] + f.total_counts["RBC"]
           ELSE f.total_counts[name],
           f.images_processed)]

\* avg_counts = {name: total_counts[name] / images_processed}
AvgCounts(f) ==
    [name \in ClassSet |-> Div(f.total_counts[name], f.images_processed)]

\* The concentrations, exact: avg * FACTOR / divisor.
Concentration(avg, factor, divisor) == Div(avg[1] * factor, avg[2] * divisor)

\* (the threshold itself counted as above it)
AtLeastTenths(x, n) == x[1] * 10 >= n * x[2]

\* x > n/10 and x < n/10 for an exact quotient x.
GreaterThanTenths(x, n) == x[1] * 10 > n * x[2]
LessThanTenths(x, n) == x[1] * 10 < n * x[2]

\* A flag message: the condition's name and the number printed in it.
Flag(name, shown) == [flag |-> name, shown |-> shown]

\* The flags, in the order of the four if statements: each test reads the
\* concentration itself, each message prints its formatted value (.1f for
\* WBC, .0f for platelets).
Flags(wbc, plt, shown_wbc, shown_plt) ==
    (IF GreaterThanTenths(wbc, 110) THEN <<Flag("Leukocytosis", shown_wbc)>> ELSE <<>>)
    \o (IF LessThanTenths(wbc, 45) THEN <<Flag("Leukopenia", shown_wbc)>> ELSE <<>>)
    \o (IF LessThanTenths(plt, 1500) THEN <<Flag("Thrombocytopenia", shown_plt)>> ELSE <<>>)
    \o (IF GreaterThanTenths(plt, 4500) THEN <<Flag("Thrombocytosis", shown_plt)>> ELSE <<>>)

\* (every submitted reference reported as rejected)
ImagesRejectedAll(f) == Len(f.file_ids)

\* "imagesRejected": len(file_ids) - images_processed
ImagesRejected(f) == Len(f.file_ids) - f.images_processed

\* Which side of a midway value each concentration's float fell on, when the
\* float is not exact (TRUE: above).
FloatSides == [{"WBC", "RBC", "PLT"} -> BOOLEAN]

\* The float computed for x from the average avg holds x exactly: both are
\* binary fractions (of the small magnitudes met here).
FloatExact(avg, x) == IsPowerOfTwo(avg[2]) /\ IsPowerOfTwo(x[2])

\* x lies midway between two numbers of <places> decimals.
Midway(x, places) == 2 * ((x[1] * Pow10(places)) % x[2]) = x[2]

\* The sides to look at after the loop of frame f: a side is open only for a
\* concentration that lies midway and whose float is not exact.
SidesOf(f) ==
    IF f.images_processed = 0 THEN {[k \in {"WBC", "RBC", "PLT"} |-> FALSE]}
    ELSE
      LET avg_counts == AvgCounts(f)
          wbc == Concentration(avg_counts["WBC"], WBC_CONVERSION_FACTOR, 1000)
          rbc == Concentration(avg_counts["RBC"], RBC_CONVERSION_FACTOR, 1000000)
          plt == Concentration(avg_counts["Platelet"], PLATELET_CONVERSION_FACTOR, 1000)
          open == [WBC |-> Midway(wbc, 1) /\ ~FloatExact(avg_counts["WBC"], wbc),
                   RBC |-> Midway(rbc, 2) /\ ~FloatExact(avg_counts["RBC"], rbc),
                   PLT |-> Midway(plt, 0) /\ ~FloatExact(avg_counts["Platelet"], plt)]
      IN {sides \in FloatSides : \A k \in DOMAIN open : sides[k] => open[k]}

\* After the loop: the all-failed error, or the report.
AfterLoop(f, session_id, sides) ==
    IF f.images_processed = 0 THEN Response(200, ErrAllFailed)
    ELSE
      LET avg_counts == AvgCounts(f)
          wbc == Concentration(avg_counts["WBC"], WBC_CONVERSION_FACTOR, 1000)
          rbc == Concentration(avg_counts["RBC"], RBC_CONVERSION_FACTOR, 1000000)
          plt == Concentration(avg_counts["Platelet"], PLATELET_CONVERSION_FACTOR, 1000)
          shown_wbc == FormatFixed(wbc, 1, FloatExact(avg_counts["WBC"], wbc),
                                   sides["WBC"])
          shown_rbc == FormatFixed(rbc, 2, FloatExact(avg_counts["RBC"], rbc),
                                   sides["RBC"])
          shown_plt == FormatFixed(plt, 0, FloatExact(avg_counts["Platelet"], plt),
                                   sides["PLT"])
      IN Response(200,
           [sessionId |-> session_id,
            imageCount |-> f.images_processed,
            imageQualityReport |->
               [averageBlurScore |-> Div(f.total_blur_score, f.images_processed),
                imagesRejected |-> ImagesRejected(f),
                rejectionReasons |-> <<>>],
            bestImage |-> [file_id |-> f.file_ids[1]],
            aggregatedAnalysis |->
               [averageCountsPerField |-> avg_counts,
                finalConcentrations |->
                   [WBC_x10e9_L |-> shown_wbc,
                    RBC_x10e12_L |-> shown_rbc,
                    PLT_x10e9_L |-> shown_plt]],
            flags |-> Flags(wbc, plt, shown_wbc, shown_plt)])

\* (the model looked at only when the first image reaches it)
AnalyzeBatchEntryUnchecked(loaded, file_ids) ==
    IF file_ids = <<>> THEN [frame |-> IdleFrame, http |-> Response(200, ErrNoFileIds)]
    ELSE [frame |-> NewFrame(file_ids), http |-> [kind |-> "waiting"]]

\* The endpoint up to its loop: the two early returns, or a fresh frame.
AnalyzeBatchEntry(loaded, file_ids) ==
    IF ~loaded THEN [frame |-> IdleFrame, http |-> Response(200, ErrModelNotLoaded)]
    ELSE IF file_ids = <<>> THEN [frame |-> IdleFrame, http |-> Response(200, ErrNoFileIds)]
    ELSE [frame |-> NewFrame(file_ids), http |-> [kind |-> "waiting"]]

NoObs == [received |-> <<>>, downloads |-> <<>>, decoded |-> <<>>, tallied |-> <<>>, raised |-> <<>>,
          sums |-> [name \in ClassSet |-> 0],
          dropped |-> 0]

\* The labels of cls the tally counts for class name: those before the first
\* index outside the vocabulary.
Counted(cls, name) ==
    LET bad == {j \in 1..Len(cls) : cls[j] >= Len(CLASS_NAMES)}
        upto == IF bad = {} THEN Len(cls)
                ELSE (CHOOSE j \in bad : \A k \in bad : j <= k) - 1
    IN Cardinality({j \in 1..upto : CLASS_NAMES[cls[j] + 1] = name})

\* The labels of cls of the vocabulary that the tally does not count: those
\* behind an index outside the vocabulary.
Dropped(cls) ==
    Cardinality({j \in 1..Len(cls) :
                   /\ cls[j] < Len(CLASS_NAMES)
                   /\ \E k \in 1..(j - 1) : cls[k] >= Len(CLASS_NAMES)})

Observe(o, file_id, pos, out) ==
    [received |-> o.received,
     downloads |-> Append(o.downloads, file_id),
     decoded |-> IF out.kind \in {"model_raises", "detected"}
                 THEN Append(o.decoded, pos) ELSE o.decoded,
     tallied |-> IF out.kind = "detected" THEN Append(o.tallied, pos) ELSE o.tallied,
     raised |-> IF out.kind = "model_raises" THEN Append(o.raised, pos) ELSE o.raised,
     sums |-> IF out.kind = "detected"
              THEN [name \in ClassSet |-> o.sums[name] + Counted(out.cls, name)]
              ELSE o.sums,
     dropped |-> IF out.kind = "detected"
                 THEN o.dropped + Dropped(out.cls)
                 ELSE o.dropped]

\* ======================================================= telegram_bot.py
\* llm_model is configured, or None.
VARIABLE llm_model
\* The analysis conversation's state for the user: END when there is none.
VARIABLE conv
\* context.user_data, a dict.
VARIABLE user_data
\* The last message the bot showed.
VARIABLE reply
\* "idle", or "handle_done" while that handler awaits the batch call.
VARIABLE bot_pc
\* The last update (or timeout) the application saw and how it was served
\* (observation only).
VARIABLE last_event
\* File ids of the uploads the quality check accepted since the conversation
\* entered the uploading state (observation only).
VARIABLE ok_uploads

\* Several users and several batch requests at once: the application's
\* conversation state and user_data of every user, and the server's running
\* analyze_batch calls.  (conv, user_data, api and http above are the one user
\* and the one call of the other specifications.)
VARIABLE sessions
VARIABLE requests

vars == <<model_loaded, api, http, obs, llm_model, conv, user_data, reply,
          bot_pc, last_event, ok_uploads, sessions, requests>>

Events ==
    {"cmd_analyze", "cb_start_analysis", "cb_start_analysis_new", "photo",
     "cb_show_tutorial", "cb_analysis_done", "cb_analysis_cancel", "cmd_start",
     "cmd_end", "cb_end_llm_chat", "cb_start_llm_chat", "text"}

\* The outcome of the POST to API_URL_CHECK for an uploaded photo.
CheckResults == {"OK", "ERROR", "non200", "RequestError"}

\* main(): which handler serves update ev in conversation state c.  The
\* conversation handler is asked first: its entry points when there is no
\* conversation, else the handlers of the state and then the fallbacks; an
\* update it does not take goes to the handlers registered after it.
Route(c, ev) ==
    LET entry ==
          IF ev \in {"cmd_analyze", "cb_start_analysis", "cb_start_analysis_new"}
          THEN "start_analysis" ELSE "none"
        state ==
          CASE c = UPLOADING_IMAGES /\ ev = "photo" -> "handle_image_upload"
            [] c = UPLOADING_IMAGES /\ ev = "cb_show_tutorial" -> "show_tutorial"
            [] c = UPLOADING_IMAGES /\ ev = "cb_analysis_done" -> "handle_done"
            [] c = Q_AND_A /\ ev = "text" -> "handle_llm_chat"
            [] c = Q_AND_A /\ ev = "cmd_end" -> "end_llm_chat"
            [] c = Q_AND_A /\ ev = "cb_end_llm_chat" -> "end_llm_chat"
            [] OTHER -> "none"
        fallback ==
          CASE ev = "cb_analysis_cancel" -> "handle_cancel"
            [] ev = "cmd_start" -> "start_command"
            [] ev = "cmd_end" -> "end_llm_chat"
            [] OTHER -> "none"
        standalone ==
          CASE ev = "cmd_start" -> "start_command"
            [] ev = "cb_start_llm_chat" -> "start_llm_chat"
            [] OTHER -> "none"
        conversation ==
          IF c = END THEN entry
          ELSE IF state # "none" THEN state ELSE fallback
    IN IF conversation # "none"
       THEN [handler |-> conversation, in_conversation |-> TRUE]
       ELSE [handler |-> standalone, in_conversation |-> FALSE]

\* The session state of the specification that the bot's data stand for.
\* (An error body kept in llm_context is not a report.)
HoldsReport(ud) ==
    "llm_context" \in DOMAIN ud /\ "error" \notin DOMAIN ud["llm_context"]

SessionState(c, ud) ==
    CASE c = UPLOADING_IMAGES -> "CollectingImages"
      [] c = Q_AND_A -> "Discussion"
      [] c = END /\ HoldsReport(ud) /\ "llm_history" \in DOMAIN ud -> "Discussion"
      [] c = END /\ HoldsReport(ud) -> "ReportReady"
      [] OTHER -> "Idle"

\* ---- the handlers: what each does to user_data, what it shows, what it returns
\* (the list of an earlier analysis kept when a new one starts)
start_analysis_keeping(ud) ==
    [user_data |-> Put(ud, "image_batch", Get(ud, "image_batch", <<>>)),
     reply |-> [kind |-> "analysis_started"],
     state |-> UPLOADING_IMAGES]

start_analysis(ud) ==
    [user_data |-> Put(ud, "image_batch", <<>>),
     reply |-> [kind |-> "analysis_started"],
     state |-> UPLOADING_IMAGES]

show_tutorial(ud) ==
    [user_data |-> ud, reply |-> [kind |-> "tutorial"], state |-> UPLOADING_IMAGES]

\* (any answer of status 200 taken as an accepted image)
AcceptedAny200(check) == check \in {"OK", "ERROR"}

\* response.status_code == 200 and data.get("status") == "OK"
Accepted(check) == check = "OK"

handle_image_upload(ud, file_id, check) ==
    LET batch == ud["image_batch"] IN
    CASE Accepted(check) ->
            [user_data |-> Put(ud, "image_batch", Append(batch, file_id)),
             reply |-> [kind |-> "image_received", num_images |-> Len(batch) + 1],
             state |-> UPLOADING_IMAGES]
      [] check = "ERROR" ->
            [user_data |-> ud,
             reply |-> [kind |-> "image_rejected", num_images |-> Len(batch)],
             state |-> UPLOADING_IMAGES]
      [] check = "non200" ->
            [user_data |-> ud, reply |-> [kind |-> "upload_failed"],
             state |-> UPLOADING_IMAGES]
      [] check = "RequestError" ->
            [user_data |-> ud, reply |-> [kind |-> "check_unreachable"],
             state |-> UPLOADING_IMAGES]

\* (the batch posted without looking at its length)
HandleDoneBeginUnchecked(ud) ==
    LET file_ids == Get(ud, "image_batch", <<>>) IN
    [post |-> TRUE, request |-> [kind |-> "request", file_ids |-> file_ids],
     reply |-> [kind |-> "analyzing", num_images |-> Len(file_ids)]]

\* handle_done up to its await: the prompt, or the request it posts.
HandleDoneBegin(ud) ==
    LET file_ids == Get(ud, "image_batch", <<>>) IN
    IF file_ids = <<>>
    THEN [post |-> FALSE, reply |-> [kind |-> "no_photos_prompt"],
          state |-> UPLOADING_IMAGES]
    ELSE [post |-> TRUE, request |-> [kind |-> "request", file_ids |-> file_ids],
          reply |-> [kind |-> "analyzing", num_images |-> Len(file_ids)]]

\* (the answer shown and not kept)
StoreContextNever(ud, data) == ud

\* context.user_data['llm_context'] = data
StoreContext(ud, data) == Put(ud, "llm_context", data)

\* handle_done after its await, on the response or the exception of the POST.
HandleDoneEnd(ud, result) ==
    LET file_ids == Get(ud, "image_batch", <<>>) IN
    CASE result.kind = "response" /\ result.status_code = 200 ->
            LET data == result.json IN
            [user_data |-> StoreContext(ud, data),
             reply |-> [kind |-> "report",
                        individual_reports |-> Get(data, "individualImageReports", <<>>),
                        num_images |-> Get(data, "imageCount", Len(file_ids)),
                        flags |-> Get(data, "flags", <<>>)],
             state |-> END]
      [] result.kind = "response" /\ result.status_code # 200 ->
            [user_data |-> ud,
             reply |-> [kind |-> "server_error", status_code |-> result.status_code],
             state |-> END]
      [] result.kind = "ReadTimeout" ->
            [user_data |-> ud, reply |-> [kind |-> "analysis_timeout"], state |-> END]
      [] result.kind = "RequestError" ->
            [user_data |-> ud, reply |-> [kind |-> "analysis_unreachable"], state |-> END]

handle_cancel(ud) ==
    [user_data |-> EmptyDict, reply |-> [kind |-> "cancelled"], state |-> END]

start_command(ud) ==
    [user_data |-> IF "image_batch" \in DOMAIN ud THEN EmptyDict ELSE ud,
     reply |-> [kind |-> "welcome"],
     state |-> END]

end_llm_chat(ud) ==
    [user_data |-> Pop(Pop(ud, "llm_context"), "llm_history"),
     reply |-> [kind |-> "chat_finished"],
     state |-> END]

start_llm_chat(ud, llm) ==
    IF ~llm
    THEN [user_data |-> ud, reply |-> [kind |-> "brain_not_connected"], state |-> END]
    ELSE IF "llm_context" \notin DOMAIN ud
    THEN [user_data |-> ud, reply |-> [kind |-> "no_report_to_discuss"], state |-> END]
    ELSE [user_data |-> Put(ud, "llm_history", "system_prompt"),
          reply |-> [kind |-> "chat_ready"],
          state |-> Q_AND_A]

\* conversation_timeout=600: the library ends the conversation; it runs no
\* handler (no TIMEOUT state is registered) and leaves user_data alone.
conversation_timeout(ud) == [user_data |-> ud, state |-> END]

\* No user has talked to the bot; no call runs on the server.
NoSessions == [conv |-> <<>>, user_data |-> <<>>]
NoRequests == [ctl |-> <<>>, locals |-> <<>>, interleaved |-> FALSE]

\* ---------------------------------------------------------------- Init
Init ==
    /\ model_loaded \in BOOLEAN
    /\ llm_model \in BOOLEAN
    /\ api = IdleFrame
    /\ http = NoHttp
    /\ obs = NoObs
    /\ conv = END
    /\ user_data = EmptyDict
    /\ reply = [kind |-> "none"]
    /\ bot_pc = "idle"
    /\ last_event = [ev |-> "none", handler |-> "none", from |-> "Idle"]
    /\ ok_uploads = <<>>
    /\ sessions = NoSessions
    /\ requests = NoRequests

\* ------------------------------------------------------------- actions
\* (updates handled concurrently: the next one taken while a handler awaits)
ApplicationAlwaysReady == TRUE

\* Application.builder().token(...).build(): no concurrent_updates and every
\* handler blocking, so the next update is taken only when no handler runs.
ApplicationReady == bot_pc = "idle"

\* The application serves update ev with a handler that ran to its end and
\* did r.
Serve(ev, r) ==
    LET route == Route(conv, ev) IN
    /\ ApplicationReady
    /\ user_data' = r.user_data
    /\ reply' = r.reply
    /\ conv' = IF route.in_conversation THEN r.state ELSE conv
    /\ ok_uploads' = IF conv = UPLOADING_IMAGES /\ conv' = UPLOADING_IMAGES
                      THEN ok_uploads ELSE <<>>
    /\ last_event' = [ev |-> ev, handler |-> route.handler,
                      from |-> SessionState(conv, user_data)]
    /\ UNCHANGED <<sessions, requests, model_loaded, api, http, obs, llm_model, bot_pc>>

StartAnalysis ==
    \E ev \in Events :
       /\ Route(conv, ev).handler = "start_analysis"
       /\ Serve(ev, start_analysis(user_data))

ShowTutorial ==
    /\ Route(conv, "cb_show_tutorial").handler = "show_tutorial"
    /\ Serve("cb_show_tutorial", show_tutorial(user_data))

HandleImageUpload ==
    \E file_id \in FileIds, check \in CheckResults :
       /\ ApplicationReady
       /\ Route(conv, "photo").handler = "handle_image_upload"
       /\ check = "OK" => Len(user_data["image_batch"]) < MaxBatch
       /\ LET r == handle_image_upload(user_data, file_id, check) IN
          /\ user_data' = r.user_data
          /\ reply' = r.reply
          /\ conv' = r.state
       /\ ok_uploads' = IF check = "OK" THEN Append(ok_uploads, file_id) ELSE ok_uploads
       /\ last_event' = [ev |-> "photo", handler |-> "handle_image_upload",
                         from |-> SessionState(conv, user_data)]
       /\ UNCHANGED <<sessions, requests, model_loaded, api, http, obs, llm_model, bot_pc>>

\* handle_done from the update to its await or, with no reference, to its end.
HandleDone ==
    /\ ApplicationReady
    /\ Route(conv, "cb_analysis_done").handler = "handle_done"
    /\ LET b == HandleDoneBegin(user_data)
           ev == [ev |-> "cb_analysis_done", handler |-> "handle_done",
                  from |-> SessionState(conv, user_data)]
       IN IF b.post
          THEN /\ http' = b.request
               /\ reply' = b.reply
               /\ bot_pc' = "handle_done"
               /\ last_event' = ev @@ [posts |-> 1, outcome |-> "pending"]
               /\ UNCHANGED <<conv, ok_uploads>>
          ELSE /\ reply' = b.reply
               /\ conv' = b.state
               /\ last_event' = ev @@ [posts |-> 0, outcome |-> "prompt"]
               /\ UNCHANGED <<http, bot_pc, ok_uploads>>
    /\ UNCHANGED <<sessions, requests, model_loaded, api, obs, llm_model, user_data>>

\* The server takes the request: analyze_batch up to its first download.
AnalyzeBatchBegin ==
    /\ http.kind = "request"
    /\ LET e == AnalyzeBatchEntry(model_loaded, http.file_ids) IN
       /\ api' = e.frame
       /\ http' = e.http
    /\ obs' = [NoObs EXCEPT !.received = http.file_ids]
    /\ UNCHANGED <<sessions, requests, model_loaded, llm_model, conv, user_data, reply, bot_pc,
                   last_event, ok_uploads>>

\* One iteration of the loop on a reference whose outcome is one of outs, and
\* with the last iteration the rest of the call.
Iterate(outs) ==
    \E out \in outs, session_id \in SessionIds :
       /\ api.pc = "loop"
       /\ LET pos == api.i + 1
              g == LoopBody(api, out)
          IN /\ obs' = Observe(obs, api.file_ids[pos], pos, out)
             /\ IF g.pc = "raised"
                THEN api' = IdleFrame /\ http' = InternalServerError
                ELSE IF g.i = Len(g.file_ids)
                THEN /\ api' = IdleFrame
                     /\ \E sides \in SidesOf(g) : http' = AfterLoop(g, session_id, sides)
                ELSE api' = g /\ UNCHANGED http
       /\ UNCHANGED <<sessions, requests, model_loaded, llm_model, conv, user_data, reply, bot_pc,
                      last_event, ok_uploads>>

AnalyzeBatchIteration == Iterate(Outcomes)

\* The same under the bot: the references of a session's batch.
AnalyzeSessionImage == Iterate(SessionOutcomes)

\* How the POST ended, as handle_done tells it apart.
PostOutcome(result) ==
    CASE result.kind # "response" -> result.kind
      [] result.status_code # 200 -> "non200"
      [] "error" \in DOMAIN result.json -> "error_body"
      [] OTHER -> "report"

\* handle_done from its await to its end, on result.
FinishDone(result) ==
    LET r == HandleDoneEnd(user_data, result) IN
    /\ bot_pc = "handle_done"
    /\ user_data' = r.user_data
    /\ reply' = r.reply
    /\ conv' = r.state
    /\ bot_pc' = "idle"
    /\ UNCHANGED ok_uploads
    /\ last_event' = [ev |-> last_event.ev, handler |-> last_event.handler,
                      from |-> last_event.from, posts |-> last_event.posts,
                      outcome |-> PostOutcome(result),
                      received |-> obs.received,
                      data |-> IF result.kind = "response" THEN result.json
                               ELSE EmptyDict]
    /\ api' = IdleFrame
    /\ http' = NoHttp
    /\ obs' = NoObs
    /\ UNCHANGED <<sessions, requests, model_loaded, llm_model>>

HandleDoneResponse ==
    /\ http.kind = "response"
    /\ FinishDone(http)

\* The POST raises: no answer within 60 seconds, or no connection.
HandleDoneReadTimeout ==
    /\ http.kind \in {"request", "waiting"}
    /\ FinishDone([kind |-> "ReadTimeout"])

HandleDoneRequestError ==
    /\ http.kind = "request"
    /\ FinishDone([kind |-> "RequestError"])

HandleCancel ==
    /\ Route(conv, "cb_analysis_cancel").handler = "handle_cancel"
    /\ Serve("cb_analysis_cancel", handle_cancel(user_data))

StartCommand ==
    /\ Route(conv, "cmd_start").handler = "start_command"
    /\ Serve("cmd_start", start_command(user_data))

EndLlmChat ==
    \E ev \in Events :
       /\ Route(conv, ev).handler = "end_llm_chat"
       /\ Serve(ev, end_llm_chat(user_data))

StartLlmChat ==
    /\ Route(conv, "cb_start_llm_chat").handler = "start_llm_chat"
    /\ Serve("cb_start_llm_chat", start_llm_chat(user_data, llm_model))

\* An update no handler takes in this state: nothing runs.
Unhandled ==
    \E ev \in Events :
       /\ Route(conv, ev).handler = "none"
       /\ Serve(ev, [user_data |-> user_data, reply |-> reply, state |-> conv])

ConversationTimeout ==
    /\ ApplicationReady
    /\ conv # END
    /\ LET r == conversation_timeout(user_data) IN
       /\ user_data' = r.user_data
       /\ conv' = r.state
    /\ ok_uploads' = <<>>
    /\ last_event' = [ev |-> "timeout", handler |-> "none",
                      from |-> SessionState(conv, user_data)]
    /\ UNCHANGED <<sessions, requests, model_loaded, api, http, obs, llm_model, reply, bot_pc>>

Next ==
    \/ StartAnalysis
    \/ ShowTutorial
    \/ HandleImageUpload
    \/ HandleDone
    \/ AnalyzeBatchBegin
    \/ AnalyzeSessionImage
    \/ HandleDoneResponse
    \/ HandleDoneReadTimeout
    \/ HandleDoneRequestError
    \/ HandleCancel
    \/ StartCommand
    \/ EndLlmChat
    \/ StartLlmChat
    \/ Unhandled
    \/ ConversationTimeout

Spec == Init /\ [][Next]_vars

\* ---------------------------------------------------- the endpoint alone
\* A client posts any list of file ids to /analyze_batch.
InitApi ==
    /\ model_loaded \in BOOLEAN
    /\ llm_model = TRUE
    /\ api = IdleFrame
    /\ \E file_ids \in SeqsUpTo(FileIds, MaxBatch) :
          http = [kind |-> "request", file_ids |-> file_ids]
    /\ obs = NoObs
    /\ conv = END
    /\ user_data = EmptyDict
    /\ reply = [kind |-> "none"]
    /\ bot_pc = "idle"
    /\ last_event = [ev |-> "none", handler |-> "none", from |-> "Idle"]
    /\ ok_uploads = <<>>
    /\ sessions = NoSessions
    /\ requests = NoRequests

NextApi ==
    \/ AnalyzeBatchBegin
    \/ AnalyzeBatchIteration

SpecApi == InitApi /\ [][NextApi]_vars

\* ------------------------------------------- analyze_batch after its loop
\* The references of a batch of n images.
BatchOf(n) == [k \in 1..n |-> IF k % 2 = 1 THEN "f1" ELSE "f2"]

\* Platelet totals whose average over p images lies at or next to 0, 10 and
\* 30 per field (platelet concentrations 0, 150 and 450).
PlateletTotals(p) == {a * p + j : a \in {0, 10, 30}, j \in 0..1} \cup {a * p - 1 : a \in {10, 30}}

RbcTotals == {0, 1, 3}

\* Thirteen images, all processed, with WBC totals around 2.23 per field
\* (WBC concentrations 4.31, 4.46 and 4.62).
LargeBatches == {[n |-> 13, p |-> 13, w |-> w] : w \in 28..30}

\* The submitted, processed and WBC totals the loop can end with.
BatchTotals ==
    {c \in [n : 1..MaxProcessed, p : 0..MaxProcessed, w : 0..MaxWbcTotal] : c.p <= c.n}
    \cup LargeBatches

\* The loop is over: any number of the n references processed, any totals.
InitReport ==
    /\ model_loaded = TRUE
    /\ llm_model = TRUE
    /\ \E c \in BatchTotals, blur \in BlurScores :
          LET n == c.n
              p == c.p
              w == c.w
          IN \E t \in PlateletTotals(p), r \in RbcTotals :
                LET counts == [name \in ClassSet |->
                                 IF p = 0 THEN 0
                                 ELSE CASE name = "WBC" -> w
                                        [] name = "Platelet" -> t
                                        [] name = "RBC" -> r]
                IN /\ api = [NewFrame(BatchOf(n)) EXCEPT
                                !.pc = "after_loop", !.i = n,
                                !.total_counts = counts,
                                !.total_blur_score = p * blur,
                                !.best_image_blur_score = IF p = 0 THEN -1 ELSE blur,
                                !.images_processed = p]
                   /\ obs = [received |-> BatchOf(n), downloads |-> BatchOf(n),
                             decoded |-> [k \in 1..p |-> k],
                             tallied |-> [k \in 1..p |-> k],
                             raised |-> <<>>, sums |-> counts, dropped |-> 0]
    /\ http = [kind |-> "waiting"]
    /\ conv = END
    /\ user_data = EmptyDict
    /\ reply = [kind |-> "none"]
    /\ bot_pc = "idle"
    /\ last_event = [ev |-> "none", handler |-> "none", from |-> "Idle"]
    /\ ok_uploads = <<>>
    /\ sessions = NoSessions
    /\ requests = NoRequests

\* analyze_batch from the end of its loop to its return.
AnalyzeBatchReport ==
    /\ api.pc = "after_loop"
    /\ \E session_id \in SessionIds, sides \in SidesOf(api) :
          http' = AfterLoop(api, session_id, sides)
    /\ api' = IdleFrame
    /\ UNCHANGED <<sessions, requests, model_loaded, obs, llm_model, conv, user_data, reply, bot_pc,
                      last_event, ok_uploads>>

NextReport == AnalyzeBatchReport

SpecReport == InitReport /\ [][NextReport]_vars

\* ------------------------------------------------ the /check_image endpoint
\* The uploaded file as cv2.imdecode sees it: bytes that do not decode, or an
\* image whose harmonized Laplacian variance is blur (a float, here a number
\* of eighths around the threshold).
UploadedFiles ==
    {[decoded |-> FALSE]}
    \cup {[decoded |-> TRUE, blur |-> Div(n, 8)] :
            n \in (8 * BLUR_THRESHOLD - BlurSpan)..(8 * BLUR_THRESHOLD + BlurSpan)}

\* (an image exactly at the threshold taken as blurry)
NotAboveThreshold(blur_value) == ~LessThan(<<BLUR_THRESHOLD, 1>>, blur_value)

\* blur_value < BLUR_THRESHOLD
BelowThreshold(blur_value) == LessThan(blur_value, <<BLUR_THRESHOLD, 1>>)

check_image_quality(file) ==
    IF ~file.decoded
    THEN [status |-> "ERROR", reason |-> [text |-> "Could not decode image."]]
    ELSE LET blur_value == file.blur IN
         IF BelowThreshold(blur_value)
         THEN [status |-> "ERROR",
               reason |-> [text |-> "Image appears too blurry. Please refocus.",
                           score |-> FormatFixed(blur_value, 2, TRUE, FALSE)]]
         ELSE [status |-> "OK", blur_score |-> blur_value]

\* A client posts a file to /check_image.
InitQuality ==
    /\ model_loaded \in BOOLEAN
    /\ llm_model = TRUE
    /\ api = IdleFrame
    /\ \E file \in UploadedFiles : http = [kind |-> "check_request", file |-> file]
    /\ obs = NoObs
    /\ conv = END
    /\ user_data = EmptyDict
    /\ reply = [kind |-> "none"]
    /\ bot_pc = "idle"
    /\ last_event = [ev |-> "none", handler |-> "none", from |-> "Idle"]
    /\ ok_uploads = <<>>
    /\ sessions = NoSessions
    /\ requests = NoRequests

CheckImageQuality ==
    /\ http.kind = "check_request"
    /\ http' = Response(200, check_image_quality(http.file))
    /\ obs' = [NoObs EXCEPT !.received = <<http.file>>]
    /\ UNCHANGED <<sessions, requests, model_loaded, api, llm_model, conv, user_data, reply, bot_pc,
                   last_event, ok_uploads>>

NextQuality == CheckImageQuality

SpecQuality == InitQuality /\ [][NextQuality]_vars

\* --------------------------------- several users, several calls at once
Users == {"u1", "u2"}
Requests == {"r1", "r2"}
\* The file id of the photo a user uploads.
PhotoOf(u) == IF u = "u1" THEN "f1" ELSE "f2"
\* The updates the users send.
UserEvents ==
    {"cmd_analyze", "photo", "cb_analysis_done", "cb_analysis_cancel", "cmd_start",
     "cmd_end"}
\* The batch each of the two calls is posted.
BatchPosted(r) == IF r = "r1" THEN <<"f1", "f2">> ELSE <<"f2">>
\* What a reference does in a call that runs next to another one.
ConcurrentOutcomes ==
    {[kind |-> "download_failed"], [kind |-> "detected", cls |-> <<1>>, blur |-> 120]}

\* The loop of analyze_batch run without interruption on the outcomes outs.
RECURSIVE RunLoop(_, _)
RunLoop(f, outs) ==
    IF outs = <<>> \/ f.pc = "raised" THEN f
    ELSE RunLoop(LoopBody(f, Head(outs)), Tail(outs))

\* The answer of an analyze_batch call that runs alone.
AnalyzeBatchAlone(loaded, file_ids, outs, session_id, sides) ==
    LET e == AnalyzeBatchEntry(loaded, file_ids) IN
    IF e.http.kind = "response" THEN e.http
    ELSE LET g == RunLoop(e.frame, outs) IN
         IF g.pc = "raised" THEN InternalServerError
         ELSE AfterLoop(g, session_id, sides)

\* How the POST of handle_done may end for the batch file_ids.
DoneResults(loaded, file_ids) ==
    {[kind |-> "ReadTimeout"]}
    \cup {AnalyzeBatchAlone(loaded, file_ids,
                            [k \in 1..Len(file_ids) |->
                               [kind |-> "detected", cls |-> <<1>>, blur |-> 120]],
                            session_id, sides) :
            session_id \in SessionIds, sides \in FloatSides}

\* (one user_data for the whole chat)
UserDataOfFirst(u) == "u1"

\* context.user_data is the dict the application keeps for the update's user.
UserDataKey(u) == u

UserData(u) == sessions.user_data[UserDataKey(u)]

\* (the totals kept in module-level variables, the same for every call)
FrameCellOfFirst(r) == "r1"

\* total_counts, total_blur_score, best_image_blur_score and images_processed
\* are local variables of the call.
FrameCell(r) == r

Locals(f) ==
    [total_counts |-> f.total_counts, total_blur_score |-> f.total_blur_score,
     best_image_blur_score |-> f.best_image_blur_score,
     images_processed |-> f.images_processed]

NoCall == [pc |-> "none"]

InitConcurrent ==
    /\ model_loaded = TRUE
    /\ llm_model = TRUE
    /\ api = IdleFrame
    /\ http = NoHttp
    /\ obs = NoObs
    /\ conv = END
    /\ user_data = EmptyDict
    /\ reply = [kind |-> "none"]
    /\ bot_pc = "idle"
    /\ last_event = [ev |-> "none", handler |-> "none", from |-> "Idle"]
    /\ ok_uploads = <<>>
    /\ sessions = [conv |-> [u \in Users |-> END],
                   user_data |-> [u \in Users |-> EmptyDict]]
    /\ requests = [ctl |-> [r \in Requests |-> NoCall],
                   locals |-> [r \in Requests |-> EmptyDict],
                   interleaved |-> FALSE]

\* What the handler of an update does to the user_data ud of its user, and the
\* state it returns; handle_done with the end of its POST.
Handled(handler, c, ud, file_id, check, result) ==
    CASE handler = "start_analysis" -> start_analysis(ud)
      [] handler = "handle_image_upload" -> handle_image_upload(ud, file_id, check)
      [] handler = "handle_done" ->
            LET b == HandleDoneBegin(ud) IN
            IF b.post THEN HandleDoneEnd(ud, result)
            ELSE [user_data |-> ud, reply |-> b.reply, state |-> b.state]
      [] handler = "handle_cancel" -> handle_cancel(ud)
      [] handler = "start_command" -> start_command(ud)
      [] handler = "end_llm_chat" -> end_llm_chat(ud)
      [] handler = "start_llm_chat" -> start_llm_chat(ud, llm_model)
      [] OTHER -> [user_data |-> ud, state |-> c]

\* The sessions of the users other than u, as they see them.
OtherSessions(u) ==
    [v \in Users \ {u} |-> [conv |-> sessions.conv[v], user_data |-> UserData(v)]]

\* What the handler draws from outside: the verdict on the photo for
\* handle_image_upload, the end of the POST for handle_done.
Drawn(handler, ud) ==
    CASE handler = "handle_image_upload" ->
            {[check |-> check, result |-> NoHttp] : check \in CheckResults}
      [] handler = "handle_done" ->
            {[check |-> "none", result |-> result] :
               result \in DoneResults(model_loaded, Get(ud, "image_batch", <<>>))}
      [] OTHER -> {[check |-> "none", result |-> NoHttp]}

\* The application serves an update of user u.
UserUpdate(u) ==
    \E ev \in UserEvents :
       LET c == sessions.conv[u]
           ud == UserData(u)
           route == Route(c, ev)
       IN \E d \in Drawn(route.handler, ud) :
            /\ (route.handler = "handle_image_upload" /\ d.check = "OK")
                  => Len(ud["image_batch"]) < MaxBatch
            /\ LET r == Handled(route.handler, c, ud, PhotoOf(u), d.check, d.result) IN
               sessions' =
                 [conv |-> [sessions.conv EXCEPT
                              ![u] = IF route.in_conversation THEN r.state ELSE c],
                  user_data |-> [sessions.user_data EXCEPT
                                   ![UserDataKey(u)] = r.user_data]]
            /\ last_event' = [ev |-> "update", user |-> u, others |-> OtherSessions(u)]
            /\ UNCHANGED <<requests, model_loaded, api, http, obs, llm_model, conv,
                           user_data, reply, bot_pc, ok_uploads>>

\* The conversation of user u times out.
UserTimeout(u) ==
    /\ sessions.conv[u] # END
    /\ sessions' = [sessions EXCEPT
                      !.conv[u] = conversation_timeout(UserData(u)).state]
    /\ last_event' = [ev |-> "update", user |-> u, others |-> OtherSessions(u)]
    /\ UNCHANGED <<requests, model_loaded, api, http, obs, llm_model, conv,
                   user_data, reply, bot_pc, ok_uploads>>

\* The other call is in its loop, past its first reference.
OtherMidway(r) ==
    \E q \in Requests \ {r} : requests.ctl[q].pc = "loop" /\ requests.ctl[q].i >= 1

\* A client posts a batch; the server starts call r on it, up to its first
\* download.
PostRequest(r) ==
    LET file_ids == BatchPosted(r)
        e == AnalyzeBatchEntry(model_loaded, file_ids)
    IN /\ requests.ctl[r].pc = "none"
       /\ requests' =
            IF e.http.kind = "response"
            THEN [requests EXCEPT
                    !.ctl[r] = [pc |-> "answered", file_ids |-> file_ids,
                                outs |-> <<>>, http |-> e.http]]
            ELSE [requests EXCEPT
                    !.ctl[r] = [pc |-> "loop", file_ids |-> file_ids, i |-> 0,
                                outs |-> <<>>, http |-> e.http],
                    !.locals[FrameCell(r)] = Locals(e.frame)]
       /\ UNCHANGED <<sessions, model_loaded, api, http, obs, llm_model, conv,
                      user_data, reply, bot_pc, last_event, ok_uploads>>

\* Call r runs from one download to the next, or to its return.
IterateRequest(r) ==
    \E out \in ConcurrentOutcomes, session_id \in SessionIds :
       LET ctl == requests.ctl[r]
           loc == requests.locals[FrameCell(r)]
           f == [pc |-> "loop", file_ids |-> ctl.file_ids, i |-> ctl.i,
                 total_counts |-> loc.total_counts,
                 total_blur_score |-> loc.total_blur_score,
                 best_image_blur_score |-> loc.best_image_blur_score,
                 images_processed |-> loc.images_processed]
           g == LoopBody(f, out)
           next == [pc |-> "loop", file_ids |-> ctl.file_ids, i |-> g.i,
                    outs |-> Append(ctl.outs, out), http |-> ctl.http]
       IN /\ ctl.pc = "loop"
          /\ \E answer \in IF g.pc = "raised" THEN {InternalServerError}
                            ELSE IF g.i = Len(g.file_ids)
                            THEN {AfterLoop(g, session_id, sides) : sides \in SidesOf(g)}
                            ELSE {ctl.http} :
               requests' =
                  [requests EXCEPT
                     !.ctl[r] = IF answer = ctl.http THEN next
                                ELSE [next EXCEPT !.pc = "answered", !.http = answer],
                     !.locals[FrameCell(r)] = Locals(g),
                     !.interleaved = @ \/ OtherMidway(r)]
          /\ UNCHANGED <<sessions, model_loaded, api, http, obs, llm_model, conv,
                         user_data, reply, bot_pc, last_event, ok_uploads>>

NextConcurrent ==
    \/ \E u \in Users : UserUpdate(u)
    \/ \E u \in Users : UserTimeout(u)
    \/ \E r \in Requests : PostRequest(r)
    \/ \E r \in Requests : IterateRequest(r)

SpecConcurrent == InitConcurrent /\ [][NextConcurrent]_vars

\* --------------------------- the same references posted in another order
Orders == {"given", "permuted"}

\* What a reference of a batch posted twice does, in either call.
PermutedOutcomes ==
    {[kind |-> "download_failed"], [kind |-> "decode_failed"], [kind |-> "model_raises"],
     [kind |-> "detected", cls |-> <<0>>, blur |-> 80],
     [kind |-> "detected", cls |-> <<1, 2>>, blur |-> 120],
     [kind |-> "detected", cls |-> <<3, 0>>, blur |-> 120]}

\* The rearrangements of n positions.
Rearrangements(n) ==
    {q \in [1..n -> 1..n] : \A a, b \in 1..n : q[a] = q[b] => a = b}

\* A call that has been posted items: references with what each will do.
PostedCall(items) ==
    [pc |-> "posted", items |-> items, frame |-> IdleFrame, http |-> [kind |-> "request"]]

\* The references of a posted call.
FileIdsOf(items) == [k \in DOMAIN items |-> items[k].file_id]
OutcomesOf(items) == [k \in DOMAIN items |-> items[k].out]

\* The sides on which the inexact midway floats of the batch fall: the same
\* totals give the same floats in both calls.
SidesOfBatch(items) ==
    LET g == RunLoop(NewFrame(FileIdsOf(items)), OutcomesOf(items))
    IN IF g.pc = "raised" \/ g.images_processed = 0
       THEN {[k \in {"WBC", "RBC", "PLT"} |-> FALSE]}
       ELSE SidesOf(g)

\* One batch of up to MaxBatch + 1 references is posted twice, the second
\* time rearranged; the classifier is loaded.
InitPermuted ==
    /\ model_loaded = TRUE
    /\ llm_model = TRUE
    /\ api = IdleFrame
    /\ http = NoHttp
    /\ obs = NoObs
    /\ conv = END
    /\ user_data = EmptyDict
    /\ reply = [kind |-> "none"]
    /\ bot_pc = "idle"
    /\ last_event = [ev |-> "none", handler |-> "none", from |-> "Idle"]
    /\ ok_uploads = <<>>
    /\ sessions = NoSessions
    /\ \E n \in 1..(MaxBatch + 1) :
          \E outs \in [1..n -> PermutedOutcomes], q \in Rearrangements(n) :
             LET items == [k \in 1..n |-> [file_id |-> BatchOf(n)[k], out |-> outs[k]]]
                 moved == [k \in 1..n |-> items[q[k]]]
             IN \E sides \in SidesOfBatch(items) :
                   requests = [ctl |-> [o \in Orders |->
                                          PostedCall(IF o = "given" THEN items ELSE moved)],
                               sides |-> sides]

\* The second call is posted once the first has been answered.
MayRun(o) == o = "given" \/ requests.ctl["given"].pc = "answered"

\* analyze_batch of call o up to its loop.
BeginPermuted(o) ==
    LET ctl == requests.ctl[o]
        e == AnalyzeBatchEntry(model_loaded, FileIdsOf(ctl.items))
    IN /\ ctl.pc = "posted"
       /\ MayRun(o)
       /\ requests' =
             [requests EXCEPT
                !.ctl[o] = [ctl EXCEPT
                              !.pc = IF e.http.kind = "response" THEN "answered" ELSE "loop",
                              !.frame = e.frame, !.http = e.http]]
       /\ UNCHANGED <<sessions, model_loaded, api, http, obs, llm_model, conv,
                      user_data, reply, bot_pc, last_event, ok_uploads>>

\* One iteration of the loop of call o, and the return after the last one.
IteratePermuted(o) ==
    LET ctl == requests.ctl[o] IN
    /\ ctl.pc = "loop"
    /\ \E session_id \in SessionIds :
          LET g == LoopBody(ctl.frame, ctl.items[ctl.frame.i + 1].out)
              answer == IF g.pc = "raised" THEN InternalServerError
                        ELSE IF g.i = Len(g.file_ids)
                        THEN AfterLoop(g, session_id, requests.sides)
                        ELSE ctl.http
          IN requests' =
                [requests EXCEPT
                   !.ctl[o] = [ctl EXCEPT
                                 !.pc = IF answer = ctl.http THEN "loop" ELSE "answered",
                                 !.frame = g, !.http = answer]]
    /\ UNCHANGED <<sessions, model_loaded, api, http, obs, llm_model, conv,
                   user_data, reply, bot_pc, last_event, ok_uploads>>

NextPermuted ==
    \/ \E o \in Orders : BeginPermuted(o)
    \/ \E o \in Orders : IteratePermuted(o)

SpecPermuted == InitPermuted /\ [][NextPermuted]_vars

\* ------------------------------ two batches that differ in their RBC labels
Pair == {"one", "other"}

\* The frame at the end of the loop over a batch of n references, p of them
\* processed, with the given totals.
FrameAfterLoop(n, p, counts, blur) ==
    [NewFrame(BatchOf(n)) EXCEPT
        !.pc = "after_loop", !.i = n,
        !.total_counts = counts,
        !.total_blur_score = p * blur,
        !.best_image_blur_score = blur,
        !.images_processed = p]

\* Two calls whose loops ended with the same processed images and the same
\* WBC and Platelet totals, and any two RBC totals.  The WBC and Platelet
\* floats of the two calls are the same floats, so they fall on the same side.
InitRbc ==
    /\ model_loaded = TRUE
    /\ llm_model = TRUE
    /\ api = IdleFrame
    /\ http = NoHttp
    /\ obs = NoObs
    /\ conv = END
    /\ user_data = EmptyDict
    /\ reply = [kind |-> "none"]
    /\ bot_pc = "idle"
    /\ last_event = [ev |-> "none", handler |-> "none", from |-> "Idle"]
    /\ ok_uploads = <<>>
    /\ sessions = NoSessions
    /\ \E c \in {b \in BatchTotals : b.p >= 1} :
          \E t \in PlateletTotals(c.p), r \in [Pair -> RbcTotals] :
             LET frame == [o \in Pair |->
                             FrameAfterLoop(c.n, c.p,
                                            [name \in ClassSet |->
                                               CASE name = "WBC" -> c.w
                                                 [] name = "Platelet" -> t
                                                 [] name = "RBC" -> r[o]],
                                            120)]
             IN \E s1 \in SidesOf(frame["one"]), s2 \in SidesOf(frame["other"]) :
                   /\ s1["WBC"] = s2["WBC"]
                   /\ s1["PLT"] = s2["PLT"]
                   /\ requests = [ctl |-> [o \in Pair |->
                                             [pc |-> "after_loop", frame |-> frame[o],
                                              sides |-> IF o = "one" THEN s1 ELSE s2,
                                              http |-> [kind |-> "waiting"]]]]

\* analyze_batch of call o from the end of its loop to its return.
ReportOf(o) ==
    LET ctl == requests.ctl[o] IN
    /\ ctl.pc = "after_loop"
    /\ \E session_id \in SessionIds :
          requests' = [requests EXCEPT
                         !.ctl[o] = [ctl EXCEPT
                                       !.pc = "answered",
                                       !.http = AfterLoop(ctl.frame, session_id, ctl.sides)]]
    /\ UNCHANGED <<sessions, model_loaded, api, http, obs, llm_model, conv,
                   user_data, reply, bot_pc, last_event, ok_uploads>>

NextRbc == \E o \in Pair : ReportOf(o)

SpecRbc == InitRbc /\ [][NextRbc]_vars

\* ================================================================ claims
\* The running call has answered a non-empty request with the model loaded.
LoopAnswered == http.kind = "response" /\ model_loaded /\ obs.received # <<>>
\* The answer is a report (not an error body, not an error status).
IsReport(h) == h.kind = "response" /\ h.status_code = 200 /\ "error" \notin DOMAIN h.json

\* C1: for a batch of N >= 1 references of which K download and decode, every
\* per-class average of the report is (the class's counts over the K images) / K,
\* so a report needs K >= 1; with K = 0 the answer is the all-images-failed
\* error, never a report and never a failed division.
C1_AveragesOverSuccesses ==
    LoopAnswered =>
       LET K == Len(obs.decoded) IN
       /\ IsReport(http) =>
             /\ K >= 1
             /\ \A name \in ClassSet :
                   LET a == http.json.aggregatedAnalysis.averageCountsPerField[name]
                   IN a[2] > 0 /\ a[1] * K = obs.sums[name] * a[2]
       /\ K = 0 => http = Response(200, ErrAllFailed)

\* C1 witness: a report over fewer images than were submitted, with WBC counted.
C1_Witness ==
    /\ LoopAnswered /\ IsReport(http)
    /\ Len(obs.decoded) < Len(obs.received)
    /\ obs.sums["WBC"] > 0

\* C2: every reference of the batch is downloaded once, in submission order,
\* and the call answers with a report whenever a reference downloaded and
\* decoded.
C2_SkipAndContinue ==
    LoopAnswered =>
       /\ obs.downloads = obs.received
       /\ obs.decoded # <<>> => IsReport(http)

\* C3: the report has one per-image entry for each tallied image, indexed by
\* the 1-based position of its reference in file_ids.
C3_PerImageEntries ==
    (LoopAnswered /\ IsReport(http)) =>
       LET entries == Get(http.json, "individualImageReports", <<>>) IN
       [k \in 1..Len(entries) |-> entries[k].image_index] = obs.tallied

\* C4: when the classifier raises on an image the loop goes on with the other
\* references and the call still answers, with a report when another image
\* was tallied.
C4_ClassifierFailureExcluded ==
    (LoopAnswered /\ obs.raised # <<>>) =>
       /\ obs.downloads = obs.received
       /\ http.status_code = 200
       /\ obs.tallied # <<>> => IsReport(http)

\* handle_done has run to its end.
DoneEnded == last_event.handler = "handle_done" /\ bot_pc = "idle"

\* C5: a done event with at least one collected reference posts the batch
\* once, the posted references are the accepted uploads in their order, and
\* after a report the conversation is over with that report in llm_context.
C5_DoneAnalysesOnce ==
    /\ (last_event.handler = "handle_done" /\ ok_uploads # <<>>) =>
          last_event.posts = 1
    /\ (bot_pc = "handle_done" /\ http.kind = "request") =>
          http.file_ids = ok_uploads
    /\ (DoneEnded /\ last_event.outcome = "report") =>
          /\ last_event.posts = 1
          /\ last_event.received = ok_uploads
          /\ conv = END
          /\ "llm_context" \in DOMAIN user_data
          /\ user_data["llm_context"] = last_event.data

\* C5 witness: a report stored for a batch of two references.
C5_Witness ==
    /\ DoneEnded /\ last_event.outcome = "report"
    /\ Len(last_event.received) = 2
    /\ user_data["llm_context"].imageCount = 2

\* What the bot shows when the batch call failed.
ErrorReplies == {"server_error", "analysis_timeout", "analysis_unreachable"}

\* C6: when the batch call ends in an error body, an error status, a timeout
\* or a connection error, the conversation is over, the user sees an error
\* message and no report is rendered or kept in llm_context.
C6_FailedAnalysisLeavesNoReport ==
    (DoneEnded /\ last_event.outcome \in {"error_body", "non200", "ReadTimeout",
                                          "RequestError"}) =>
       /\ conv = END
       /\ reply.kind \in ErrorReplies
       /\ "llm_context" \notin DOMAIN user_data

\* C7: a done event with no collected reference posts nothing, shows the
\* prompt and leaves user_data and the uploading state as they are.
C7_EmptyDoneStays ==
    [][(/\ conv = UPLOADING_IMAGES
        /\ bot_pc = "idle"
        /\ Get(user_data, "image_batch", <<>>) = <<>>
        /\ last_event'.ev = "cb_analysis_done")
       => (/\ http' = http
           /\ api' = api
           /\ bot_pc' = "idle"
           /\ last_event'.posts = 0
           /\ reply'.kind = "no_photos_prompt"
           /\ user_data' = user_data
           /\ conv' = UPLOADING_IMAGES)]_vars

\* C7 witness: the prompt was shown in the uploading state.
C7_Witness ==
    /\ last_event.handler = "handle_done"
    /\ last_event.outcome = "prompt"
    /\ reply.kind = "no_photos_prompt"
    /\ conv = UPLOADING_IMAGES

\* C8: in the uploading state image_batch is the file ids of the accepted
\* uploads in upload order, and every upload, accepted or not, leaves the
\* conversation in the uploading state.
C8_UploadsCollected ==
    /\ conv = UPLOADING_IMAGES =>
          /\ "image_batch" \in DOMAIN user_data
          /\ user_data["image_batch"] = ok_uploads
    /\ last_event.handler = "handle_image_upload" => conv = UPLOADING_IMAGES

\* C8 witness: an upload was rejected after two were accepted.
C8_Witness ==
    /\ conv = UPLOADING_IMAGES
    /\ last_event.handler = "handle_image_upload"
    /\ reply.kind \in {"image_rejected", "upload_failed", "check_unreachable"}
    /\ Len(ok_uploads) = 2

\* C9: a cancel event in a state other than Idle is served and leaves the
\* conversation over with no references and no report.
C9_CancelClears ==
    (last_event.ev = "cb_analysis_cancel" /\ last_event.from # "Idle") =>
       /\ last_event.handler = "handle_cancel"
       /\ conv = END
       /\ Get(user_data, "image_batch", <<>>) = <<>>
       /\ "llm_context" \notin DOMAIN user_data

\* C10: after the inactivity timeout the conversation is over and no
\* collected reference remains in user_data.
C10_TimeoutDiscards ==
    last_event.ev = "timeout" =>
       /\ conv = END
       /\ Get(user_data, "image_batch", <<>>) = <<>>

\* C11: a new-analysis event served when a report is ready leaves the
\* conversation in the uploading state with no llm_context in user_data, so
\* that the earlier report cannot be discussed.
C11_NewAnalysisClearsReport ==
    (last_event.handler = "start_analysis" /\ last_event.from = "ReportReady") =>
       /\ conv = UPLOADING_IMAGES
       /\ "llm_context" \notin DOMAIN user_data

QualityAnswered == http.kind = "response" /\ Len(obs.received) = 1 /\ obs.received[1] \in UploadedFiles
CheckedFile == obs.received[1]

\* C13: every file gets a verdict.  Bytes that do not decode are rejected
\* with the could-not-decode reason and no blur score; a decoded image is
\* accepted exactly when its blur score is >= BLUR_THRESHOLD; a decoded image
\* below it is rejected with a reason that carries the score rounded to two
\* decimals; every rejected verdict has a reason.
C13_QualityVerdict ==
    QualityAnswered =>
       LET file == CheckedFile
           verdict == http.json
       IN /\ http.status_code = 200
          /\ verdict.status \in {"OK", "ERROR"}
          /\ verdict.status = "ERROR" => "reason" \in DOMAIN verdict
          /\ ~file.decoded =>
                /\ verdict.status = "ERROR"
                /\ verdict.reason.text = "Could not decode image."
                /\ "score" \notin DOMAIN verdict.reason
                /\ "blur_score" \notin DOMAIN verdict
          /\ file.decoded =>
                /\ verdict.status = "OK" <=> ~LessThan(file.blur, <<BLUR_THRESHOLD, 1>>)
                /\ verdict.status = "OK" => verdict.blur_score = file.blur
                /\ verdict.status = "ERROR" =>
                      LET shown == verdict.reason.score
                          hundredths == 100 * shown.int + 10 * shown.frac[1] + shown.frac[2]
                          d == 2 * (hundredths * file.blur[2] - 100 * file.blur[1])
                      IN /\ Len(shown.frac) = 2
                         /\ d <= file.blur[2]
                         /\ -d <= file.blur[2]

\* C13 witness: an image exactly at the threshold was accepted.
C13_Witness ==
    /\ QualityAnswered
    /\ CheckedFile.decoded
    /\ CheckedFile.blur = <<BLUR_THRESHOLD, 1>>
    /\ http.json.status = "OK"

\* The flags of the conditions that hold for WBC total w and platelet total t
\* over p images, in table order (WBC = 2w/p, Platelet = 15t/p).
ExpectedFlags(w, t, p) ==
    (IF 2 * w > 11 * p THEN <<"Leukocytosis">> ELSE <<>>)
    \o (IF 4 * w < 9 * p THEN <<"Leukopenia">> ELSE <<>>)
    \o (IF t < 10 * p THEN <<"Thrombocytopenia">> ELSE <<>>)
    \o (IF t > 30 * p THEN <<"Thrombocytosis">> ELSE <<>>)

\* C14: the flags of a report are exactly the flags of the conditions
\* WBC > 11.0, WBC < 4.5, Platelet < 150, Platelet > 450 that hold for the
\* computed concentrations, in that order; a concentration equal to a
\* threshold raises no flag.
C14_FlagsExact ==
    (IsReport(http) /\ obs.decoded # <<>>) =>
       [k \in DOMAIN http.json.flags |-> http.json.flags[k].flag]
          = ExpectedFlags(obs.sums["WBC"], obs.sums["Platelet"], Len(obs.decoded))

\* C14 witness: a report for WBC exactly 4.5 and platelets exactly 450, with
\* no flag.
C14_Witness ==
    /\ IsReport(http)
    /\ Len(obs.decoded) = 4
    /\ obs.sums["WBC"] = 9
    /\ obs.sums["Platelet"] = 120
    /\ http.json.flags = <<>>

\* shown has exactly places digits after the point and is the nearest such
\* number to n/d (either neighbour when n/d lies midway).
ShownAs(shown, places, n, d) ==
    LET scale == Pow10(places)
        h == shown.int * scale
             + IF places = 0 THEN 0
               ELSE IF places = 1 THEN shown.frac[1]
               ELSE 10 * shown.frac[1] + shown.frac[2]
        twice == 2 * (h * d - n * scale)
    IN /\ Len(shown.frac) = places
       /\ \A k \in 1..places : shown.frac[k] \in 0..9
       /\ twice <= d
       /\ -twice <= d

\* C15: in every report the concentrations are WBC = avg*2000/1000 with
\* exactly 1 decimal, RBC = avg*15000/1000000 with exactly 2 decimals and
\* Platelet = avg*15000/1000 with exactly 0 decimals, whatever the averages.
C15_ConcentrationsShown ==
    (IsReport(http) /\ obs.decoded # <<>>) =>
       LET p == Len(obs.decoded)
           shown == http.json.aggregatedAnalysis.finalConcentrations
       IN /\ ShownAs(shown.WBC_x10e9_L, 1, obs.sums["WBC"] * 2000, p * 1000)
          /\ ShownAs(shown.RBC_x10e12_L, 2, obs.sums["RBC"] * 15000, p * 1000000)
          /\ ShownAs(shown.PLT_x10e9_L, 0, obs.sums["Platelet"] * 15000, p * 1000)

\* C15 witness: WBC 2.0, RBC 0.00 (from 0.005, midway) and platelets 450 in
\* one report.
C15_Witness ==
    /\ IsReport(http)
    /\ Len(obs.decoded) = 3
    /\ obs.sums["WBC"] = 3 /\ obs.sums["RBC"] = 1 /\ obs.sums["Platelet"] = 90
    /\ LET shown == http.json.aggregatedAnalysis.finalConcentrations
       IN /\ shown.WBC_x10e9_L = [int |-> 2, frac |-> <<0>>]
          /\ shown.RBC_x10e12_L = [int |-> 0, frac |-> <<0, 0>>]
          /\ shown.PLT_x10e9_L = [int |-> 450, frac |-> <<>>]

\* C16: in every report imagesRejected is the number of submitted references
\* minus the number processed, imageCount is the number processed and at
\* least 1, imagesRejected is at least 0, and the two together do not exceed
\* the number submitted.
C16_RejectedPlusCounted ==
    (LoopAnswered /\ IsReport(http)) =>
       LET submitted == Len(obs.received)
           processed == Len(obs.decoded)
           imageCount == http.json.imageCount
           imagesRejected == http.json.imageQualityReport.imagesRejected
       IN /\ imageCount = processed
          /\ imagesRejected = submitted - processed
          /\ imageCount >= 1
          /\ imagesRejected >= 0
          /\ imagesRejected + imageCount <= submitted

\* C16 witness: a report over one of two submitted references.
C16_Witness ==
    /\ LoopAnswered /\ IsReport(http)
    /\ Len(obs.received) = 2
    /\ http.json.imageCount = 1
    /\ http.json.imageQualityReport.imagesRejected = 1

\* The endpoint has taken a request with an empty file_ids list.
EmptyListTaken == http.kind # "request" /\ obs.received = <<>>

\* What the claim promises for an empty list: the empty-batch error, distinct
\* from the two other errors, no reference downloaded, no report.
EmptyBatchFailure ==
    /\ http = Response(200, ErrNoFileIds)
    /\ ErrNoFileIds # ErrAllFailed
    /\ ErrNoFileIds # ErrModelNotLoaded
    /\ api = IdleFrame
    /\ obs.downloads = <<>>
    /\ ~IsReport(http)

\* C17: analyze_batch called with an empty list answers with the empty-batch
\* error, distinct from the all-images-failed and the model-not-loaded
\* errors, having downloaded nothing and produced no report.
C17_EmptyBatchError == EmptyListTaken => EmptyBatchFailure

\* C17 amended: the same when the model is loaded (without a model the
\* model-not-loaded error is returned first, whatever the list).
C17_EmptyBatchErrorWhenLoaded ==
    /\ (EmptyListTaken /\ model_loaded) => EmptyBatchFailure
    /\ (EmptyListTaken /\ ~model_loaded) =>
          /\ http = Response(200, ErrModelNotLoaded)
          /\ obs.downloads = <<>>

\* C17 witness: the empty-batch error returned by a server with a model.
C17_Witness ==
    /\ EmptyListTaken
    /\ model_loaded
    /\ http = Response(200, ErrNoFileIds)

\* C18: without a model every request is answered with the model-not-loaded
\* error before any work on an image: nothing is downloaded or decoded, no
\* frame with counters exists, and that error is never the answer of a call
\* that has downloaded a reference.
C18_ModelCheckedFirst ==
    /\ (~model_loaded /\ http.kind # "request") =>
          /\ http = Response(200, ErrModelNotLoaded)
          /\ api = IdleFrame
          /\ obs.downloads = <<>>
          /\ obs.decoded = <<>>
          /\ obs.sums = NoObs.sums
    /\ api.pc = "loop" => model_loaded
    /\ (http.kind = "response" /\ http.json = ErrModelNotLoaded) =>
          ~model_loaded /\ obs.downloads = <<>>

\* C18 witness: the error answered to a batch of two references.
C18_Witness ==
    /\ ~model_loaded
    /\ http = Response(200, ErrModelNotLoaded)
    /\ Len(obs.received) = 2
    /\ obs.downloads = <<>>

\* C19: the batch is not aborted by a label outside CLASS_NAMES, and in the
\* report the total of each class (its average times the number of images
\* processed) is the number of detections carrying that class's label over
\* all processed images: what the tally counted, with no label of the
\* vocabulary left uncounted behind an unknown one.
C19_EveryKnownLabelCounted ==
    /\ (LoopAnswered /\ obs.raised = <<>>) =>
          /\ http.status_code = 200
          /\ obs.downloads = obs.received
    /\ (LoopAnswered /\ IsReport(http)) =>
          /\ obs.dropped = 0
          /\ \A name \in ClassSet :
                LET a == http.json.aggregatedAnalysis.averageCountsPerField[name]
                IN a[1] * Len(obs.decoded) = obs.sums[name] * a[2]

\* C20: an update or a timeout of one user leaves the conversation state and
\* the user_data (collected references, report) of every other user as they
\* were, and every analyze_batch call, however its iterations interleave with
\* those of another call, answers what it would answer when run alone on the
\* same references with the same outcomes.
C20_NoSharedState ==
    /\ "user" \in DOMAIN last_event =>
          \A v \in Users \ {last_event.user} :
             /\ sessions.conv[v] = last_event.others[v].conv
             /\ UserData(v) = last_event.others[v].user_data
    /\ \A r \in DOMAIN requests.ctl :
          requests.ctl[r].pc = "answered" =>
             \E session_id \in SessionIds, sides \in FloatSides :
                requests.ctl[r].http =
                   AnalyzeBatchAlone(model_loaded, requests.ctl[r].file_ids,
                                     requests.ctl[r].outs, session_id, sides)

\* C20 witness: two calls that interleaved have both answered with a report,
\* and the first user has just sent an update while the second user holds two
\* references.
C20_Witness ==
    /\ requests.interleaved
    /\ \A r \in Requests :
          /\ requests.ctl[r].pc = "answered"
          /\ IsReport(requests.ctl[r].http)
    /\ "user" \in DOMAIN last_event
    /\ last_event.user = "u1"
    /\ sessions.conv["u2"] = UPLOADING_IMAGES
    /\ Len(UserData("u2")["image_batch"]) = 2


\* Tenths of a number shown with one digit after the point, and the units of
\* a number shown with none.
ShownTenths(shown) == shown.int * 10 + shown.frac[1]
ShownUnits(shown) == shown.int

\* The number printed in a flag message satisfies the flag's condition.
ShownAgrees(m) ==
    CASE m.flag = "Leukocytosis" -> ShownTenths(m.shown) > 110
      [] m.flag = "Leukopenia" -> ShownTenths(m.shown) < 45
      [] m.flag = "Thrombocytopenia" -> ShownUnits(m.shown) < 150
      [] m.flag = "Thrombocytosis" -> ShownUnits(m.shown) > 450

\* The number printed in a flag message is the reported concentration.
ShownIsReported(m, fc) ==
    m.shown = IF m.flag \in {"Leukocytosis", "Leukopenia"} THEN fc.WBC_x10e9_L
              ELSE fc.PLT_x10e9_L

\* C21: the number printed in a flag message is the reported concentration,
\* and it satisfies the flag's condition: a Leukopenia message never shows a
\* WBC value >= 4.5, a Leukocytosis message never one <= 11.0, a
\* Thrombocytopenia message never one >= 150, a Thrombocytosis message never
\* one <= 450.
C21_ShownValueAgrees ==
    IsReport(http) =>
       \A k \in DOMAIN http.json.flags :
          /\ ShownIsReported(http.json.flags[k],
                             http.json.aggregatedAnalysis.finalConcentrations)
          /\ ShownAgrees(http.json.flags[k])

\* The numeric content of an answer: of a report its imageCount,
\* imagesRejected, per-class averages, concentrations and flags; of any other
\* answer the whole of it.
NumericContent(h) ==
    IF IsReport(h)
    THEN [imageCount |-> h.json.imageCount,
          imagesRejected |-> h.json.imageQualityReport.imagesRejected,
          averageCountsPerField |-> h.json.aggregatedAnalysis.averageCountsPerField,
          finalConcentrations |-> h.json.aggregatedAnalysis.finalConcentrations,
          flags |-> h.json.flags]
    ELSE [answer |-> h]

BothAnswered == \A o \in Orders : requests.ctl[o].pc = "answered"

\* C22: the numeric content of the report (imageCount, imagesRejected, the
\* per-class averages, the concentrations and the flags) is the same for a
\* batch and for any rearrangement of its references, each reference doing
\* the same in both calls; and one call reports exactly when the other does.
C22_OrderIndependent ==
    BothAnswered =>
       NumericContent(requests.ctl["given"].http)
          = NumericContent(requests.ctl["permuted"].http)

\* C22 witness: two reports for three references posted in different orders,
\* one of them rejected, with detections and a flag in the report.
C22_Witness ==
    /\ BothAnswered
    /\ IsReport(requests.ctl["given"].http)
    /\ IsReport(requests.ctl["permuted"].http)
    /\ Len(requests.ctl["given"].items) = 3
    /\ OutcomesOf(requests.ctl["given"].items) # OutcomesOf(requests.ctl["permuted"].items)
    /\ requests.ctl["permuted"].http.json.imageQualityReport.imagesRejected = 1
    /\ requests.ctl["permuted"].http.json.imageCount = 2
    /\ requests.ctl["permuted"].http.json.aggregatedAnalysis.averageCountsPerField["WBC"] = <<1, 2>>
    /\ requests.ctl["permuted"].http.json.flags # <<>>
    /\ requests.ctl["given"].http.json.bestImage # requests.ctl["permuted"].http.json.bestImage

\* C23: every entry into the uploading state (by /analyze, the try-it-now
\* button or the new-analysis button) leaves image_batch empty, and the batch
\* posted at a done event is exactly the uploads accepted since that entry,
\* so it holds no reference of an earlier analysis; the end of an analysis by
\* done or by timeout leaves the list in user_data.
C23_EntryStartsEmpty ==
    /\ last_event.handler = "start_analysis" =>
          /\ last_event.ev \in {"cmd_analyze", "cb_start_analysis", "cb_start_analysis_new"}
          /\ conv = UPLOADING_IMAGES
          /\ user_data["image_batch"] = <<>>
    /\ (bot_pc = "handle_done" /\ http.kind = "request") =>
          http.file_ids = ok_uploads
    /\ (DoneEnded /\ last_event.posts = 1) =>
          /\ conv = END
          /\ user_data["image_batch"] = ok_uploads
          /\ ok_uploads # <<>>
    /\ (last_event.ev = "timeout" /\ last_event.from = "CollectingImages") =>
          /\ conv = END
          /\ "image_batch" \in DOMAIN user_data

\* C23 witness: a user whose earlier analysis ended with a report sends the
\* one photo of a new analysis at its done event.
C23_Witness ==
    /\ bot_pc = "handle_done"
    /\ http.kind = "request"
    /\ HoldsReport(user_data)
    /\ http.file_ids = <<"f2">>

\* Both calls of the pair have returned.
PairAnswered == \A o \in Pair : requests.ctl[o].pc = "answered"

\* C24: two batches with the same processed images and the same WBC and
\* Platelet labels, whatever their RBC labels, get the same sequence of flags.
C24_FlagsIgnoreRbc ==
    PairAnswered =>
       requests.ctl["one"].http.json.flags = requests.ctl["other"].http.json.flags

\* C24 witness: two reports with different RBC concentrations and the same
\* two flags.
C24_Witness ==
    /\ PairAnswered
    /\ requests.ctl["one"].frame.total_counts["RBC"] = 0
    /\ requests.ctl["other"].frame.total_counts["RBC"] = 3
    /\ requests.ctl["one"].http.json.aggregatedAnalysis.finalConcentrations.RBC_x10e12_L
          # requests.ctl["other"].http.json.aggregatedAnalysis.finalConcentrations.RBC_x10e12_L
    /\ Len(requests.ctl["one"].http.json.flags) = 2
    /\ requests.ctl["other"].http.json.flags[1].flag = "Leukocytosis"
    /\ requests.ctl["other"].http.json.flags[2].flag = "Thrombocytosis"

\* C25: the discuss action served when a report is ready (and the LLM is
\* connected) leaves the conversation in the Q_AND_A state; a text message
\* sent in the discussion is served by handle_llm_chat, and /end or the
\* end-chat button by end_llm_chat.
C25_DiscussStartsChat ==
    /\ (last_event.handler = "start_llm_chat" /\ last_event.from = "ReportReady"
         /\ llm_model) =>
          /\ reply.kind = "chat_ready"
          /\ conv = Q_AND_A
    /\ (last_event.ev = "text" /\ last_event.from = "Discussion") =>
          last_event.handler = "handle_llm_chat"
    /\ (last_event.ev \in {"cmd_end", "cb_end_llm_chat"} /\ last_event.from = "Discussion") =>
          last_event.handler = "end_llm_chat"

====
